---- MODULE Spec2Model ----
(***************************************************************************)
(* Model of the recursive research-tree orchestrator `deepResearch`.       *)
(*                                                                         *)
(* One run = one outermost call of deepResearch.  Invocations and the      *)
(* branches they fan out are addressed by their call path: the outermost   *)
(* invocation is <<>>, branch i of invocation k is Append(k, i), and the   *)
(* recursive invocation started by a branch has the branch's call path.    *)
(* Node ids ("0", "0-1", "0-1-0") are sequences of their '-' separated     *)
(* segments (<<0>>, <<0,1>>, <<0,1,0>>).                                   *)
(*                                                                         *)
(* JavaScript runs every piece of code between two suspension points       *)
(* (await / for await / limiter admission) without interleaving, so each   *)
(* action below is one such piece.                                         *)
(*                                                                         *)
(* Not modelled: prompt texts, languages, the message text of an error     *)
(* event, the raw search results and the `title` back-filled from them.    *)
(***************************************************************************)
EXTENDS Naturals, Integers, Sequences, FiniteSets, TLC

VARIABLES
    args,           \* arguments of the outermost call: breadth, maxDepth, retryNode
    concurrency0,   \* the limiter's capacity before the outermost call started
    globalLimit,    \* the shared limiter: [concurrency, activeCount]
    inv,            \* call path -> state of that deepResearch invocation
    br,             \* call path -> state of that fan-out branch (limiter task)
    events,         \* nodeId -> sequence of the progress events carrying it
    completes,      \* sequence of the `complete` events passed to onProgress
    dedup           \* the deduplication loop on its own: [results, finalLearnings]

vars == <<args, concurrency0, globalLimit, inv, br, events, completes, dedup>>

----------------------------------------------------------------------------
\* Bounds of the model

\* largest number of entries in one streamed `queries` snapshot
MaxQueries == 2
\* largest number of branches one run submits to the limiter
MaxBranches == 3
\* maxDepth of the outermost call is drawn from 0 .. MaxDepthBound
MaxDepthBound == 1
\* initial limiter capacity is drawn from 1 .. MaxCapacity
MaxCapacity == 2
\* largest number of object / reasoning chunks one generation stream yields
MaxGenChunks == 1
\* largest number of object / reasoning chunks one processing stream yields
MaxProcChunks == 1
\* urls are 1 .. MaxUrl
MaxUrl == 1
\* breadth of the outermost call is drawn from 1 .. MaxBreadth
MaxBreadth == 1
\* the deduplication loop on its own: urls 1 .. MaxDedupUrl, branch results
\* of at most MaxDedupLen learnings, at most MaxDedupResults branch results
MaxDedupUrl == 3
MaxDedupLen == 2
MaxDedupResults == 2

----------------------------------------------------------------------------
\* Values

\* a field that is absent (JavaScript undefined)
NoVal == "absent"

\* the root node id '0'
RootId == <<0>>

\* the text of the query at position j of a raw model snapshot
QueryText(j) ==
    CASE j = 0 -> "q0" [] j = 1 -> "q1" [] j = 2 -> "q2" [] OTHER -> "q3"

\* `${parentNodeId}-${currentIndex}`
childNodeId(parentNodeId, currentIndex) == Append(parentNodeId, currentIndex)

\* Math.ceil(breadth / 2)
NextBreadth(breadth) == (breadth + 1) \div 2

NoRetry == [given |-> FALSE, id |-> RootId, label |-> NoVal, researchGoal |-> NoVal]

\* the retry nodes a caller may pass: the root node or an inner node
RootRetry == [given |-> TRUE, id |-> RootId, label |-> "X", researchGoal |-> "Y"]
InnerRetry == [given |-> TRUE, id |-> <<0, 1>>, label |-> "X", researchGoal |-> "Y"]
RetryNodes == { NoRetry, RootRetry, InnerRetry }

----------------------------------------------------------------------------
\* Progress events, kept per nodeId in emission order

Log(n) == IF n \in DOMAIN events THEN events[n] ELSE <<>>

Emit1(evs, n, e) ==
    [x \in (DOMAIN evs) \cup {n} |->
        IF x = n THEN (IF n \in DOMAIN evs THEN Append(evs[n], e) ELSE <<e>>)
        ELSE evs[x]]

\* emit the events of the list es (each [nodeId, ev]) in order
RECURSIVE EmitAll(_, _)
EmitAll(evs, es) ==
    IF es = <<>> THEN evs
    ELSE EmitAll(Emit1(evs, Head(es).nodeId, Head(es).ev), Tail(es))

Ev(n, e) == [nodeId |-> n, ev |-> e]

EvGeneratingQuery(q, parent) ==
    Ev(q.nodeId, [type |-> "generating_query", query |-> q.query, parentNodeId |-> parent])
EvGeneratingQueryReasoning(n) == Ev(n, [type |-> "generating_query_reasoning"])
EvGeneratedQuery(q) == Ev(q.nodeId, [type |-> "generated_query", query |-> q.query])
EvSearching(q) == Ev(q.nodeId, [type |-> "searching", query |-> q.query])
EvSearchComplete(n) == Ev(n, [type |-> "search_complete"])
EvProcessing(n, value) ==
    Ev(n, [type |-> "processing_serach_result", learnings |-> value.learnings,
           followUpQuestions |-> value.followUpQuestions])
EvProcessingReasoning(n) == Ev(n, [type |-> "processing_serach_result_reasoning"])
EvNodeComplete(n) == Ev(n, [type |-> "node_complete", hasResult |-> FALSE])
EvNodeCompleteResult(n, ls, fs) ==
    Ev(n, [type |-> "node_complete", hasResult |-> TRUE, learnings |-> ls,
           followUpQuestions |-> fs])
EvError(n) == Ev(n, [type |-> "error"])

----------------------------------------------------------------------------
\* Inputs drawn from the collaborators (model streams, search provider)

Urls == 1 .. MaxUrl

\* one entry of a streamed `queries` array at raw position j: a query text,
\* the literal 'undefined' some models return, or a still missing field
RawQuery(j, kind) ==
    [query |-> CASE kind = "text" -> QueryText(j)
                 [] kind = "undefined" -> "undefined"
                 [] OTHER -> NoVal,
     researchGoal |-> "goal"]

RawKinds == {"text", "undefined", "partial"}

\* the snapshots parseStreamingJson yields for the generation stream: its
\* predicate asks for a first entry with a non-empty query
QuerySnapshots ==
    { s \in UNION { {[j \in 1 .. n |-> RawQuery(j - 1, ks[j])] : ks \in [1 .. n -> RawKinds]} :
                    n \in 1 .. MaxQueries } :
        s[1].query # NoVal }

\* the learnings a branch with node id n can extract: one per url, the text
\* of a learning names the branch it comes from
OwnLearnings(n) == { <<[url |-> u, learning |-> n]>> : u \in Urls }

FollowUps == { <<>>, <<"f">> }

\* the snapshots parseStreamingJson yields for the processing stream of the
\* branch n: its predicate asks for at least one learning
ResultSnapshots(n) ==
    { [learnings |-> ls, followUpQuestions |-> fs] : ls \in OwnLearnings(n), fs \in FollowUps }

\* the same with one more url, so that a branch can extract a url its
\* ancestors have not seen
MoreUrls == 1 .. MaxUrl + 1
ResultSnapshotsMoreUrls(n) ==
    { [learnings |-> << [url |-> u, learning |-> n] >>, followUpQuestions |-> fs] :
        u \in MoreUrls, fs \in FollowUps }

----------------------------------------------------------------------------
\* Pieces of deepResearch

\* faulty variant: the root id is not excluded
UsesRetryNodeAnyId(retryNode) == retryNode.given

\* retryNode && retryNode.id !== '0'
UsesRetryNode(retryNode) == retryNode.given /\ retryNode.id # RootId

\* faulty variant: the child ids are assigned before the filter
FilterQueriesRawIndex(queries, nodeId) ==
    SelectSeq([j \in 1 .. Len(queries) |->
                  [query |-> queries[j].query, researchGoal |-> queries[j].researchGoal,
                   nodeId |-> childNodeId(nodeId, j - 1)]],
              LAMBDA q : q.query # "undefined")

\* chunk.value.queries.filter(q => q.query !== 'undefined')
\*                    .map((q, i) => ({ ...q, nodeId: childNodeId(nodeId, i) }))
FilterQueries(queries, nodeId) ==
    LET kept == SelectSeq(queries, LAMBDA q : q.query # "undefined")
    IN  [i \in 1 .. Len(kept) |->
            [query |-> kept[i].query, researchGoal |-> kept[i].researchGoal,
             nodeId |-> childNodeId(nodeId, i - 1)]]

\* !searchQuery?.query
NoQuery(searchQuery) == searchQuery.query = NoVal \/ searchQuery.query = ""

\* faulty variant: the inherited learnings are left out
AllLearningsOwnOnly(learnings, own) == own

\* [...(learnings ?? []), ...(searchResult.learnings ?? [])]
AllLearnings(learnings, own) == learnings \o own

\* faulty variant: the depth test is dropped
ShouldRecurseAnyDepth(nextDepth, maxDepth, followUpQuestions) ==
    Len(followUpQuestions) > 0

\* faulty variant: the follow-up test is dropped
ShouldRecurseNoQuestions(nextDepth, maxDepth, followUpQuestions) ==
    nextDepth <= maxDepth

\* nextDepth <= maxDepth && searchResult.followUpQuestions?.length
ShouldRecurse(nextDepth, maxDepth, followUpQuestions) ==
    nextDepth <= maxDepth /\ Len(followUpQuestions) > 0

\* faulty variant: the increment is missing
ConcurrencyNotRaised(c) == c

\* globalLimit.concurrency++
ConcurrencyBeforeRecursion(c) == c + 1

\* faulty variant: the decrement is missing
ConcurrencyKept(c) == c

\* finally { globalLimit.concurrency-- }
ConcurrencyAfterRecursion(c) == c - 1

\* faulty variant: the branch-local catch rethrows
BranchCatchRethrows(e) == [status |-> "rejected", learnings |-> <<>>]

\* the branch-local catch: return { learnings: [] }
BranchCatch(e) == [status |-> "fulfilled", learnings |-> <<>>]

\* faulty variant: the outermost catch rethrows
OuterCatchRethrows(error) == [status |-> "rejected", learnings |-> <<>>]

\* the outermost catch: return { learnings: [] }
OuterCatch(error) == [status |-> "fulfilled", learnings |-> <<>>]

\* nodeId === '0'
IsRootNode(nodeId) == nodeId = RootId

\* faulty variant: the recursive call is made without a nodeId and runs
\* with the default '0'
RecursiveNodeIdOmitted(searchQuery, nodeId) == RootId

\* deepResearch({ ..., nodeId: searchQuery.nodeId })
RecursiveNodeId(searchQuery, nodeId) == searchQuery.nodeId

\* faulty variant: a later learning replaces the one kept for its url
RECURSIVE DedupIntoLastWins(_, _)
DedupIntoLastWins(finalLearnings, rest) ==
    IF rest = <<>> THEN finalLearnings
    ELSE IF \E i \in 1 .. Len(finalLearnings) : finalLearnings[i].url = Head(rest).url
         THEN DedupIntoLastWins(
                  [i \in 1 .. Len(finalLearnings) |->
                      IF finalLearnings[i].url = Head(rest).url THEN Head(rest)
                      ELSE finalLearnings[i]],
                  Tail(rest))
         ELSE DedupIntoLastWins(Append(finalLearnings, Head(rest)), Tail(rest))

\* the urlMap / finalLearnings loop over the branch results
RECURSIVE DedupInto(_, _)
DedupInto(finalLearnings, rest) ==
    IF rest = <<>> THEN finalLearnings
    ELSE IF \E i \in 1 .. Len(finalLearnings) : finalLearnings[i].url = Head(rest).url
         THEN DedupInto(finalLearnings, Tail(rest))
         ELSE DedupInto(Append(finalLearnings, Head(rest)), Tail(rest))

RECURSIVE Flatten(_)
Flatten(results) ==
    IF results = <<>> THEN <<>> ELSE Head(results).learnings \o Flatten(Tail(results))

Deduplicate(results) == DedupInto(<<>>, Flatten(results))

----------------------------------------------------------------------------
\* The shared limiter returned by usePLimit(): it admits a queued task only
\* while fewer tasks are running than its capacity, and gives the slot back
\* once the task's promise has settled

LimiterHasHeadroom(limit) == limit.activeCount < limit.concurrency
LimiterAcquire(limit) == [limit EXCEPT !.activeCount = @ + 1]
LimiterRelease(limit) == [limit EXCEPT !.activeCount = @ - 1]

----------------------------------------------------------------------------
\* State of invocations and branches

Front(k) == SubSeq(k, 1, Len(k) - 1)
Last(k) == k[Len(k)]

Pending == [status |-> "pending", learnings |-> <<>>]
Fulfilled(ls) == [status |-> "fulfilled", learnings |-> ls]

\* the branches an invocation has fanned out
BranchesOf(k) == { b \in DOMAIN br : Len(b) = Len(k) + 1 /\ Front(b) = k }

\* the branch results in the order of searchQueries, as Promise.all returns them
ResultsOf(k) == [i \in 1 .. Len(inv[k].searchQueries) |-> br[Append(k, i - 1)].ret]

\* searchQueries.map(searchQuery => globalLimit(async () => ...)): one queued
\* limiter task per query
FanOut(k, searchQueries) ==
    [b \in { Append(k, i - 1) : i \in 1 .. Len(searchQueries) } |->
        [pc |-> "queued",
         nodeId |-> searchQueries[Last(b) + 1].nodeId,
         query |-> searchQueries[Last(b) + 1].query,
         researchGoal |-> searchQueries[Last(b) + 1].researchGoal,
         searchResult |-> [learnings |-> <<>>, followUpQuestions |-> <<>>],
         chunks |-> 0,
         fate |-> "queued",
         ret |-> Pending]]

NoBranches == [b \in {} |-> 0]

\* the number of branches the run is already committed to: the submitted
\* ones and the children captured by invocations that have not fanned out
RECURSIVE Captured(_)
Captured(S) ==
    IF S = {} THEN 0
    ELSE LET k == CHOOSE x \in S : TRUE
         IN  (IF inv[k].pc \in {"generating", "leaving"} THEN Len(inv[k].searchQueries) ELSE 0)
             + Captured(S \ {k})

Committed(except) == Cardinality(DOMAIN br) + Captured(DOMAIN inv \ {except})

\* deepResearch from its first line to its first suspension point.
\* genThrows: generateSearchQueries throws before the stream is read.
\* Yields the invocation's state, the events emitted and the branches queued.
Enter(k, nodeId, breadth, currentDepth, learnings, retryNode, genThrows) ==
    LET base == [pc |-> "generating", nodeId |-> nodeId, breadth |-> breadth,
                 currentDepth |-> currentDepth, learnings |-> learnings,
                 searchQueries |-> <<>>, chunks |-> 0, retried |-> FALSE,
                 streamFailed |-> FALSE, caught |-> FALSE, ret |-> Pending]
    IN  IF UsesRetryNode(retryNode)
        THEN LET sq == << [query |-> retryNode.label,
                           researchGoal |-> retryNode.researchGoal,
                           nodeId |-> retryNode.id] >>
             IN  [rec |-> [base EXCEPT !.pc = "joining", !.nodeId = retryNode.id,
                                       !.searchQueries = sq, !.retried = TRUE],
                  evs |-> <<>>,
                  fan |-> FanOut(k, sq)]
        ELSE IF genThrows
        THEN [rec |-> [base EXCEPT !.pc = "done", !.caught = TRUE,
                                   !.ret = OuterCatch("generateSearchQueries")],
              evs |-> << EvError(nodeId) >>,
              fan |-> NoBranches]
        ELSE [rec |-> base, evs |-> <<>>, fan |-> NoBranches]

----------------------------------------------------------------------------
\* Actions

NoDedup == [results |-> <<>>, finalLearnings |-> <<>>]

\* the state before the outermost call, for a given set of retry nodes
InitWith(retryNodes) ==
    /\ args \in [breadth : 1 .. MaxBreadth, maxDepth : 0 .. MaxDepthBound,
                 retryNode : retryNodes]
    /\ concurrency0 \in 1 .. MaxCapacity
    /\ globalLimit = [concurrency |-> concurrency0, activeCount |-> 0]
    /\ inv = [k \in {} |-> 0]
    /\ br = NoBranches
    /\ events = [n \in {} |-> 0]
    /\ completes = <<>>
    /\ dedup = NoDedup

\* a fresh start, or the retry of an inner node
Init == InitWith({NoRetry, InnerRetry})

\* the same, and the retry of the root node
InitRetry == InitWith(RetryNodes)

\* the caller invokes deepResearch({ ..., currentDepth: 0 })
Call(genThrows) ==
    /\ <<>> \notin DOMAIN inv
    /\ LET e == Enter(<<>>, RootId, args.breadth, 0, <<>>, args.retryNode, genThrows)
       IN  /\ inv' = (<<>> :> e.rec) @@ inv
           /\ br' = e.fan @@ br
           /\ events' = EmitAll(events, e.evs)
    /\ UNCHANGED <<args, concurrency0, globalLimit, completes, dedup>>

\* for await: the generation stream yields an object snapshot
GenObject(k, raw) ==
    /\ inv[k].pc = "generating"
    /\ inv[k].chunks < MaxGenChunks
    /\ LET sq == FilterQueries(raw, inv[k].nodeId)
       IN  /\ Committed(k) + Len(sq) <= MaxBranches
           /\ inv' = [inv EXCEPT ![k].searchQueries = sq, ![k].chunks = @ + 1]
           /\ events' = EmitAll(events,
                  [i \in 1 .. Len(sq) |-> EvGeneratingQuery(sq[i], inv[k].nodeId)])
    /\ UNCHANGED <<args, concurrency0, globalLimit, br, completes, dedup>>

\* for await: the generation stream yields a reasoning delta
GenReasoning(k) ==
    /\ inv[k].pc = "generating"
    /\ inv[k].chunks < MaxGenChunks
    /\ inv' = [inv EXCEPT ![k].chunks = @ + 1]
    /\ events' = EmitAll(events, << EvGeneratingQueryReasoning(inv[k].nodeId) >>)
    /\ UNCHANGED <<args, concurrency0, globalLimit, br, completes, dedup>>

\* faulty variant: a failed stream skips node_complete
AfterGenerationNoComplete(failed, nodeId, searchQueries) ==
    IF failed
    THEN [i \in 1 .. Len(searchQueries) |-> EvGeneratedQuery(searchQueries[i])]
    ELSE << EvNodeComplete(nodeId) >>
         \o [i \in 1 .. Len(searchQueries) |-> EvGeneratedQuery(searchQueries[i])]

\* the events between the generation loop and the fan-out, whether or not
\* the stream failed: node_complete without payload, then generated_query
\* for every search query
AfterGeneration(failed, nodeId, searchQueries) ==
    << EvNodeComplete(nodeId) >>
    \o [i \in 1 .. Len(searchQueries) |-> EvGeneratedQuery(searchQueries[i])]

\* the code after the generation loop: node_complete, the generated_query
\* events and the fan-out of one limiter task per search query
GenContinue(k, pcNow) ==
    /\ inv[k].pc = pcNow
    /\ LET sq == inv[k].searchQueries
           n == inv[k].nodeId
       IN  /\ inv' = [inv EXCEPT ![k].pc = "joining"]
           /\ br' = FanOut(k, sq) @@ br
           /\ events' = EmitAll(events, AfterGeneration(inv[k].streamFailed, n, sq))
    /\ UNCHANGED <<args, concurrency0, globalLimit, completes, dedup>>

\* the generation stream ends ("end") and the code after the loop runs; or
\* it yields an error or bad-end chunk: `error` is emitted and the loop
\* breaks, which suspends the invocation while the stream is closed
GenStop(k, how) ==
    IF how = "end"
    THEN GenContinue(k, "generating")
    ELSE /\ inv[k].pc = "generating"
         /\ inv' = [inv EXCEPT ![k].pc = "leaving", ![k].streamFailed = TRUE]
         /\ events' = EmitAll(events, << EvError(inv[k].nodeId) >>)
         /\ UNCHANGED <<args, concurrency0, globalLimit, br, completes, dedup>>

\* the invocation resumes after the break out of the generation loop
GenLeft(k) == GenContinue(k, "leaving")

\* the limiter admits a queued task and runs it up to `await useWebSearch()`
Admit(b) ==
    /\ br[b].pc = "queued"
    /\ LimiterHasHeadroom(globalLimit)
    /\ globalLimit' = LimiterAcquire(globalLimit)
    /\ IF NoQuery(br[b])
       THEN /\ br' = [br EXCEPT ![b].pc = "returned", ![b].fate = "noQuery",
                                ![b].ret = Fulfilled(<<>>)]
            /\ UNCHANGED events
       ELSE /\ br' = [br EXCEPT ![b].pc = "searching"]
            /\ events' = EmitAll(events, << EvSearching(br[b]) >>)
    /\ UNCHANGED <<args, concurrency0, inv, completes, dedup>>

\* the search call settles: it returns results ("ok"), it fails
\* ("searchFail"), or it returns and processSearchResult throws ("processFail")
SearchSettle(b, outcome) ==
    /\ br[b].pc = "searching"
    /\ LET n == br[b].nodeId
       IN  CASE outcome = "ok" ->
                  /\ br' = [br EXCEPT ![b].pc = "processing", ![b].fate = "searched"]
                  /\ events' = EmitAll(events, << EvSearchComplete(n) >>)
             [] outcome = "searchFail" ->
                  /\ br' = [br EXCEPT ![b].pc = "returned", ![b].fate = "searchFail",
                                      ![b].ret = BranchCatch("search failed")]
                  /\ events' = EmitAll(events, << EvError(n) >>)
             [] OTHER ->
                  /\ br' = [br EXCEPT ![b].pc = "returned", ![b].fate = "processFail",
                                      ![b].ret = BranchCatch("processSearchResult")]
                  /\ events' = EmitAll(events,
                         << EvSearchComplete(n), EvError(n) >>)
    /\ UNCHANGED <<args, concurrency0, globalLimit, inv, completes, dedup>>

\* for await: the processing stream yields an object snapshot
ProcObject(b, value) ==
    /\ br[b].pc = "processing"
    /\ br[b].chunks < MaxProcChunks
    /\ br' = [br EXCEPT ![b].searchResult = value, ![b].chunks = @ + 1]
    /\ events' = EmitAll(events, << EvProcessing(br[b].nodeId, value) >>)
    /\ UNCHANGED <<args, concurrency0, globalLimit, inv, completes, dedup>>

\* for await: the processing stream yields a reasoning delta
ProcReasoning(b) ==
    /\ br[b].pc = "processing"
    /\ br[b].chunks < MaxProcChunks
    /\ br' = [br EXCEPT ![b].chunks = @ + 1]
    /\ events' = EmitAll(events, << EvProcessingReasoning(br[b].nodeId) >>)
    /\ UNCHANGED <<args, concurrency0, globalLimit, inv, completes, dedup>>

\* the code after the processing loop: node_complete with the branch's
\* result and either the recursive call (up to its first suspension point)
\* or the return
ProcContinue(b, pcNow, fate, genThrows) ==
    /\ br[b].pc = pcNow
    /\ LET p == inv[Front(b)]
           n == br[b].nodeId
           sr == br[b].searchResult
           allLearnings == AllLearnings(p.learnings, sr.learnings)
           nextDepth == p.currentDepth + 1
           done == << EvNodeCompleteResult(n, sr.learnings, sr.followUpQuestions) >>
       IN  IF ShouldRecurse(nextDepth, args.maxDepth, sr.followUpQuestions)
           THEN LET e == Enter(b, RecursiveNodeId(br[b], p.nodeId), NextBreadth(p.breadth),
                               nextDepth, allLearnings, NoRetry, genThrows)
                IN  /\ globalLimit' = [globalLimit EXCEPT
                           !.concurrency = ConcurrencyBeforeRecursion(@)]
                    /\ inv' = (b :> e.rec) @@ inv
                    /\ br' = e.fan @@ [br EXCEPT ![b].pc = "recursing", ![b].fate = fate]
                    /\ events' = EmitAll(events, done \o e.evs)
           ELSE /\ br' = [br EXCEPT ![b].pc = "returned", ![b].fate = fate,
                                    ![b].ret = Fulfilled(allLearnings)]
                /\ events' = EmitAll(events, done)
                /\ UNCHANGED <<globalLimit, inv>>
    /\ UNCHANGED <<args, concurrency0, completes, dedup>>

\* the processing stream ends ("end") and the code after the loop runs; or
\* it yields an error or bad-end chunk: `error` is emitted and the loop
\* breaks, which suspends the task while the stream is closed
ProcStop(b, how, genThrows) ==
    IF how = "end"
    THEN ProcContinue(b, "processing", "processed", genThrows)
    ELSE /\ br[b].pc = "processing"
         /\ br' = [br EXCEPT ![b].pc = "leaving", ![b].fate = "streamFail"]
         /\ events' = EmitAll(events, << EvError(br[b].nodeId) >>)
         /\ UNCHANGED <<args, concurrency0, globalLimit, inv, completes, dedup>>

\* the task resumes after the break out of the processing loop
ProcLeft(b, genThrows) == ProcContinue(b, "leaving", "streamFail", genThrows)

\* faulty variant: the recursive call is not awaited
DeepResearchNotAwaited(b) == TRUE

\* await deepResearch(...): the recursive call has settled
DeepResearchAwaited(b) == inv[b].pc = "done"

\* the awaited recursive call has settled: finally { concurrency-- }, then
\* return r, or rethrow into the branch-local catch
RecursionSettled(b) ==
    /\ br[b].pc = "recursing"
    /\ DeepResearchAwaited(b)
    /\ globalLimit' = [globalLimit EXCEPT !.concurrency = ConcurrencyAfterRecursion(@)]
    /\ IF inv[b].ret.status = "fulfilled"
       THEN /\ br' = [br EXCEPT ![b].pc = "returned", ![b].ret = inv[b].ret]
            /\ UNCHANGED events
       ELSE /\ br' = [br EXCEPT ![b].pc = "returned", ![b].ret = BranchCatch("recursion")]
            /\ events' = EmitAll(events, << EvError(br[b].nodeId) >>)
    /\ UNCHANGED <<args, concurrency0, inv, completes, dedup>>

\* the limiter sees the task's promise settle and gives the slot back
Release(b) ==
    /\ br[b].pc = "returned"
    /\ br' = [br EXCEPT ![b].pc = "settled"]
    /\ globalLimit' = LimiterRelease(globalLimit)
    /\ UNCHANGED <<args, concurrency0, inv, events, completes, dedup>>

\* faulty variant: the first settled task resolves the wait
PromiseRace(k) ==
    \/ inv[k].searchQueries = <<>>
    \/ \E i \in 1 .. Len(inv[k].searchQueries) : br[Append(k, i - 1)].pc = "settled"

\* await Promise.all(...): one limiter task of the fan-out has rejected, or
\* every one of them has settled
\* (a task rejects only when something thrown escapes the branch-local
\* handler; the progress callback of the runs modelled here does not throw)
PromiseAll(k) ==
    \/ \E i \in 1 .. Len(inv[k].searchQueries) :
          /\ br[Append(k, i - 1)].pc = "settled"
          /\ br[Append(k, i - 1)].ret.status = "rejected"
    \/ \A i \in 1 .. Len(inv[k].searchQueries) : br[Append(k, i - 1)].pc = "settled"

\* Promise.all settles: the outer catch when it rejected; else deduplicate, `complete` at the root, return
Join(k) ==
    /\ inv[k].pc = "joining"
    /\ PromiseAll(k)
    /\ LET results == ResultsOf(k)
           finalLearnings == Deduplicate(results)
       IN  IF \E i \in 1 .. Len(results) : results[i].status = "rejected"
           THEN /\ inv' = [inv EXCEPT ![k].pc = "done", ![k].caught = TRUE,
                                      ![k].ret = OuterCatch("branch")]
                /\ events' = EmitAll(events, << EvError(inv[k].nodeId) >>)
                /\ UNCHANGED completes
           ELSE /\ inv' = [inv EXCEPT ![k].pc = "done", ![k].ret = Fulfilled(finalLearnings)]
                /\ completes' = IF IsRootNode(inv[k].nodeId)
                                THEN Append(completes, [type |-> "complete",
                                                        learnings |-> finalLearnings])
                                ELSE completes
                /\ UNCHANGED events
    /\ UNCHANGED <<args, concurrency0, globalLimit, br, dedup>>

Next ==
    \/ \E t \in BOOLEAN : Call(t)
    \/ \E k \in DOMAIN inv : \E raw \in QuerySnapshots : GenObject(k, raw)
    \/ \E k \in DOMAIN inv : GenReasoning(k)
    \/ \E k \in DOMAIN inv : \E how \in {"end", "error", "bad-end"} : GenStop(k, how)
    \/ \E k \in DOMAIN inv : GenLeft(k)
    \/ \E b \in DOMAIN br : Admit(b)
    \/ \E b \in DOMAIN br : \E o \in {"ok", "searchFail", "processFail"} : SearchSettle(b, o)
    \/ \E b \in DOMAIN br : \E v \in ResultSnapshots(br[b].nodeId) : ProcObject(b, v)
    \/ \E b \in DOMAIN br : ProcReasoning(b)
    \/ \E b \in DOMAIN br : \E how \in {"end", "error", "bad-end"} : \E t \in BOOLEAN :
          ProcStop(b, how, t)
    \/ \E b \in DOMAIN br : \E t \in BOOLEAN : ProcLeft(b, t)
    \/ \E b \in DOMAIN br : RecursionSettled(b)
    \/ \E b \in DOMAIN br : Release(b)
    \/ \E k \in DOMAIN inv : Join(k)

Spec == Init /\ [][Next]_vars

\* the runs of Spec and the runs that retry the root node
SpecRetry == InitRetry /\ [][Next]_vars

\* Runs of a fresh root call with limiter capacity 1 and the largest
\* maxDepth, in which the processing streams draw from one more url
InitInherit ==
    /\ InitWith({NoRetry})
    /\ args.maxDepth = MaxDepthBound
    /\ concurrency0 = 1

NextInherit ==
    \/ \E t \in BOOLEAN : Call(t)
    \/ \E k \in DOMAIN inv : \E raw \in QuerySnapshots : GenObject(k, raw)
    \/ \E k \in DOMAIN inv : GenReasoning(k)
    \/ \E k \in DOMAIN inv : \E how \in {"end", "error", "bad-end"} : GenStop(k, how)
    \/ \E k \in DOMAIN inv : GenLeft(k)
    \/ \E b \in DOMAIN br : Admit(b)
    \/ \E b \in DOMAIN br : \E o \in {"ok", "searchFail", "processFail"} : SearchSettle(b, o)
    \/ \E b \in DOMAIN br : \E v \in ResultSnapshotsMoreUrls(br[b].nodeId) : ProcObject(b, v)
    \/ \E b \in DOMAIN br : ProcReasoning(b)
    \/ \E b \in DOMAIN br : \E how \in {"end", "error", "bad-end"} : \E t \in BOOLEAN :
          ProcStop(b, how, t)
    \/ \E b \in DOMAIN br : \E t \in BOOLEAN : ProcLeft(b, t)
    \/ \E b \in DOMAIN br : RecursionSettled(b)
    \/ \E b \in DOMAIN br : Release(b)
    \/ \E k \in DOMAIN inv : Join(k)

SpecInherit == InitInherit /\ [][NextInherit]_vars

\* the event loop runs a continuation that is ready, and every model stream
\* and search call eventually ends or fails: a step that can be taken is
\* eventually taken
Fairness == WF_vars(Next)

SpecLive == Init /\ [][Next]_vars /\ Fairness


----------------------------------------------------------------------------
\* The deduplication loop applied to branch results drawn from bounded sets

\* the learning lists a branch at position i may return: the text of a
\* learning names its position <<i, j>> in the input
DedupLists(i) ==
    UNION { { [j \in 1 .. n |-> [url |-> us[j], learning |-> <<i, j>>]] :
                us \in [1 .. n -> 1 .. MaxDedupUrl] } : n \in 0 .. MaxDedupLen }

InitDedup ==
    /\ InitWith({NoRetry})
    /\ args.breadth = 1
    /\ args.maxDepth = 0
    /\ concurrency0 = 1

\* one more branch result is joined and the loop runs over all of them
DedupStep(ls) ==
    /\ LET results == Append(dedup.results, Fulfilled(ls))
       IN  dedup' = [results |-> results, finalLearnings |-> Deduplicate(results)]
    /\ UNCHANGED <<args, concurrency0, globalLimit, inv, br, events, completes>>

NextDedup ==
    /\ Len(dedup.results) < MaxDedupResults
    /\ \E ls \in DedupLists(Len(dedup.results) + 1) : DedupStep(ls)

SpecDedup == InitDedup /\ [][NextDedup]_vars

----------------------------------------------------------------------------
\* Vocabulary of the properties

RootCalled == <<>> \in DOMAIN inv
RootSettled == RootCalled /\ inv[<<>>].pc = "done"

\* the outermost invocation runs as the root node '0'
RootRun == RootCalled /\ inv[<<>>].nodeId = RootId

EventsOf(n, type) == { i \in 1 .. Len(Log(n)) : Log(n)[i].type = type }
HasEvent(n, type) == EventsOf(n, type) # {}
HasNodeComplete(n, withResult) ==
    \E i \in EventsOf(n, "node_complete") : Log(n)[i].hasResult = withResult

NodeIds ==
    DOMAIN events \cup { br[b].nodeId : b \in DOMAIN br }
                  \cup { inv[k].nodeId : k \in DOMAIN inv }

\* a branch has returned from its task function
Returned(b) == br[b].pc \in {"returned", "settled"}

\* the branch started a recursive deepResearch call
Recursed(b) == b \in DOMAIN inv

\* the failures that happened at the node n: failed branches, failed
\* generation streams, outer handlers that fired
FailuresAt(n) ==
    Cardinality({ b \in DOMAIN br : br[b].nodeId = n
                    /\ br[b].fate \in {"searchFail", "processFail", "streamFail"} })
    + Cardinality({ k \in DOMAIN inv : inv[k].nodeId = n /\ inv[k].streamFailed })
    + Cardinality({ k \in DOMAIN inv : inv[k].nodeId = n /\ inv[k].caught })


----------------------------------------------------------------------------
\* C1: once a root invocation (nodeId '0', currentDepth 0) has settled,
\* exactly one `complete` event has been passed to onProgress, whatever
\* failed in the run; before that none has, so no recursive invocation
\* emits one.
C1_CompletionSingularity ==
    /\ Len(completes) <= 1
    /\ Len(completes) = 1 => RootSettled
    /\ (RootSettled /\ RootRun) => Len(completes) = 1

\* C2: every invocation and every branch that has finished has resolved to a
\* value { learnings } and none has rejected; the error events carrying a
\* node id are exactly the failures that happened at that node, so a failure
\* is reported where it happened and nowhere above it.
C2_RootNeverFails ==
    /\ \A k \in DOMAIN inv : inv[k].pc = "done" => inv[k].ret.status = "fulfilled"
    /\ \A b \in DOMAIN br : Returned(b) => br[b].ret.status = "fulfilled"
    /\ \A n \in NodeIds : Cardinality(EventsOf(n, "error")) = FailuresAt(n)

\* the root call has settled after a failed search, a failed processing
\* stream and a recursive call whose query generation threw
C2_Witness ==
    /\ RootSettled
    /\ \E b \in DOMAIN br : br[b].fate = "searchFail"
    /\ \E b \in DOMAIN br : Recursed(b) /\ inv[b].caught

\* C3: a branch whose search failed has emitted an error event with its own
\* node id and contributes { learnings: [] }; when its parent invocation has
\* finished, the parent resolved without its outer handler firing, every
\* sibling ran to its end, and every sibling whose search and processing
\* succeeded has emitted search_complete and node_complete with its result.
C3_ErrorIsolation ==
    \A b \in DOMAIN br :
        br[b].fate = "searchFail" =>
            /\ HasEvent(br[b].nodeId, "error")
            /\ br[b].ret = Fulfilled(<<>>)
            /\ inv[Front(b)].pc = "done" =>
                 /\ ~inv[Front(b)].caught
                 /\ inv[Front(b)].ret.status = "fulfilled"
                 /\ \A s \in BranchesOf(Front(b)) :
                        /\ br[s].pc = "settled"
                        /\ br[s].fate \notin {"queued", "searched"}
                        /\ br[s].fate = "processed" =>
                             /\ HasEvent(br[s].nodeId, "search_complete")
                             /\ HasNodeComplete(br[s].nodeId, TRUE)

\* two siblings of a finished invocation: the search of one failed, the
\* other searched and processed
C3_Witness ==
    \E b \in DOMAIN br : \E s \in BranchesOf(Front(b)) :
        /\ br[b].fate = "searchFail"
        /\ br[s].fate = "processed"
        /\ inv[Front(b)].pc = "done"

\* C4: in every reachable state the number of admitted tasks is at most the
\* limiter's capacity.
C4_LimiterInvariant == globalLimit.activeCount <= globalLimit.concurrency

\* C5: once the root call has settled no branch is between its increment
\* and its decrement, and the capacity is the one the run started with.
C5_CapacityBalance ==
    RootSettled =>
        /\ globalLimit.concurrency = concurrency0
        /\ \A b \in DOMAIN br : br[b].pc # "recursing"

\* the root call has settled after a recursive call that returned learnings
\* and one whose outer handler fired
C5_Witness ==
    /\ RootSettled
    /\ \E b \in DOMAIN br : Recursed(b) /\ inv[b].caught
    /\ \E b \in DOMAIN br : Recursed(b) /\ inv[b].ret.learnings # <<>>

\* C6: a branch that started a recursive call did so with
\* currentDepth + 1 <= maxDepth, and no invocation has currentDepth > maxDepth.
C6_DepthBound ==
    /\ \A k \in DOMAIN inv : inv[k].currentDepth <= args.maxDepth
    /\ \A b \in DOMAIN br :
          Recursed(b) => inv[Front(b)].currentDepth + 1 <= args.maxDepth

\* a branch at the depth limit returned follow-up questions and did not recurse
C6_Witness ==
    \E b \in DOMAIN br :
        /\ Returned(b)
        /\ br[b].searchResult.followUpQuestions # <<>>
        /\ inv[Front(b)].currentDepth + 1 > args.maxDepth
        /\ ~Recursed(b)

\* C7: a branch that recursed had follow-up questions; a branch that ended
\* its processing without any has not recursed and, once it has left the
\* processing loop, its result is the inherited learnings followed by its
\* own.
C7_RecursionTrigger ==
    \A b \in DOMAIN br :
        /\ Recursed(b) => br[b].searchResult.followUpQuestions # <<>>
        /\ (br[b].fate \in {"processed", "streamFail"}
              /\ br[b].searchResult.followUpQuestions = <<>>) =>
                 /\ ~Recursed(b)
                 /\ br[b].pc # "recursing"
                 /\ br[b].pc # "leaving" =>
                        br[b].ret = Fulfilled(inv[Front(b)].learnings
                                              \o br[b].searchResult.learnings)

\* depth allows recursion, the processing stream failed after a snapshot
\* without follow-up questions, and the branch returned
C7_Witness ==
    \E b \in DOMAIN br :
        /\ br[b].fate = "streamFail"
        /\ br[b].searchResult.learnings # <<>>
        /\ br[b].searchResult.followUpQuestions = <<>>
        /\ inv[Front(b)].currentDepth + 1 <= args.maxDepth
        /\ Returned(b)


----------------------------------------------------------------------------
\* Deduplication stated on the input: positions <<i, j>> of the learnings of
\* the branch results, in child order and list order

Positions(results) ==
    UNION { { <<i, j>> : j \in 1 .. Len(results[i].learnings) } : i \in 1 .. Len(results) }

Before(p, q) == p[1] < q[1] \/ (p[1] = q[1] /\ p[2] < q[2])

At(results, p) == results[p[1]].learnings[p[2]]

\* the position of the first occurrence of the url u
FirstPosition(results, u) ==
    CHOOSE p \in Positions(results) :
        /\ At(results, p).url = u
        /\ \A q \in Positions(results) : At(results, q).url = u => ~Before(q, p)

\* C8: the aggregated list contains every url of the branch results exactly
\* once, holds the learning of the url's first occurrence, and orders the
\* urls by their first occurrences.
C8_Deduplication ==
    LET results == dedup.results
        final == dedup.finalLearnings
    IN  /\ { final[x].url : x \in 1 .. Len(final) }
             = { At(results, p).url : p \in Positions(results) }
        /\ \A x, y \in 1 .. Len(final) : x # y => final[x].url # final[y].url
        /\ \A x \in 1 .. Len(final) :
               final[x] = At(results, FirstPosition(results, final[x].url))
        /\ \A x, y \in 1 .. Len(final) :
               x < y => Before(FirstPosition(results, final[x].url),
                               FirstPosition(results, final[y].url))

\* two branch results overlap in a url that is not the first of the second
\* result, and the second result brings a new url as well
C8_Witness ==
    /\ Len(dedup.results) = 2
    /\ Len(dedup.results[2].learnings) = 2
    /\ \E j \in 1 .. Len(dedup.results[1].learnings) :
          dedup.results[1].learnings[j].url = dedup.results[2].learnings[2].url
    /\ \A j \in 1 .. Len(dedup.results[1].learnings) :
          dedup.results[1].learnings[j].url # dedup.results[2].learnings[1].url
    /\ Len(dedup.finalLearnings) = 2

----------------------------------------------------------------------------
GenerationTypes ==
    {"generating_query", "generating_query_reasoning", "generated_query"}

\* C9: an outermost call with a retry node other than the root runs as that
\* node, has exactly one search query and one branch, with the node's label,
\* research goal and id, and as long as that branch has not started a
\* recursive call no query-generation event and no node_complete without
\* result has been emitted; with the root node as retry node, or none, the
\* call runs as node '0' and generates its queries.
C9_RetrySemantics ==
    RootCalled =>
        IF args.retryNode.given /\ args.retryNode.id # RootId
        THEN /\ inv[<<>>].retried
             /\ inv[<<>>].nodeId = args.retryNode.id
             /\ inv[<<>>].chunks = 0
             /\ inv[<<>>].searchQueries =
                    << [query |-> args.retryNode.label,
                        researchGoal |-> args.retryNode.researchGoal,
                        nodeId |-> args.retryNode.id] >>
             /\ BranchesOf(<<>>) = { <<0>> }
             /\ br[<<0>>].query = args.retryNode.label
             /\ br[<<0>>].researchGoal = args.retryNode.researchGoal
             /\ br[<<0>>].nodeId = args.retryNode.id
             /\ ~Recursed(<<0>>) =>
                    \A n \in NodeIds :
                        /\ \A t \in GenerationTypes : ~HasEvent(n, t)
                        /\ ~HasNodeComplete(n, FALSE)
        ELSE /\ ~inv[<<>>].retried
             /\ inv[<<>>].nodeId = RootId
             /\ (inv[<<>>].pc \notin {"generating", "leaving"} /\ ~inv[<<>>].caught) =>
                    HasNodeComplete(RootId, FALSE)

\* the retried inner node has searched, processed and returned
C9_Witness ==
    /\ RootCalled
    /\ args.retryNode = InnerRetry
    /\ br[<<0>>].fate = "processed"
    /\ br[<<0>>].pc = "settled"
    /\ HasEvent(InnerRetry.id, "searching")

\* C10: once a root call has settled, the learnings it resolved to are the
\* learnings of the one `complete` event.
C10_ResolvedEqualsComplete ==
    (RootSettled /\ RootRun) =>
        /\ Len(completes) = 1
        /\ completes[1].learnings = inv[<<>>].ret.learnings

----------------------------------------------------------------------------
\* the place of an event type in the causal order of one node (0: the type
\* is not part of the order)
CausalRank(type) ==
    CASE type \in GenerationTypes -> 1
      [] type = "searching" -> 2
      [] type = "search_complete" -> 3
      [] type \in {"processing_serach_result",
                   "processing_serach_result_reasoning"} -> 4
      [] type = "node_complete" -> 5
      [] OTHER -> 0

CausallyOrdered(log) ==
    \A i, j \in 1 .. Len(log) :
        (i < j /\ CausalRank(log[i].type) # 0 /\ CausalRank(log[j].type) # 0)
            => CausalRank(log[i].type) <= CausalRank(log[j].type)

\* C11: among the events carrying one node id, the query-generation events
\* come before `searching`, which comes before `search_complete`, which
\* comes before the processing events, which come before node_complete;
\* also for the node id of a branch that recursed.
C11_CausalOrder == \A n \in DOMAIN events : CausallyOrdered(events[n])

----------------------------------------------------------------------------
\* C12: an invocation that has finished has all its branches returned, one
\* per search query, and unless its outer handler fired it resolved to the
\* deduplicated results of all of them; a branch that is searching,
\* processing or leaving a failed processing stream can take its next step
\* whatever state its siblings are in.
C12_JoinSemantics ==
    /\ \A k \in DOMAIN inv :
          inv[k].pc = "done" =>
              /\ \A b \in BranchesOf(k) : Returned(b) /\ br[b].ret.status # "pending"
              /\ ~inv[k].caught =>
                    /\ Cardinality(BranchesOf(k)) = Len(inv[k].searchQueries)
                    /\ inv[k].ret = Fulfilled(Deduplicate(ResultsOf(k)))
    /\ \A b \in DOMAIN br :
          /\ br[b].pc = "searching" => ENABLED SearchSettle(b, "ok")
          /\ br[b].pc = "processing" => ENABLED ProcStop(b, "end", FALSE)
          /\ br[b].pc = "leaving" => ENABLED ProcLeft(b, FALSE)

\* a branch has searched, processed and settled while its sibling is still
\* waiting for its search, and their invocation has not resolved
C12_Witness ==
    \E b \in DOMAIN br : \E s \in BranchesOf(Front(b)) :
        /\ br[b].pc = "searching"
        /\ br[s].pc = "settled"
        /\ br[s].fate = "processed"
        /\ inv[Front(b)].pc = "joining"

----------------------------------------------------------------------------
\* C13: once the root call has resolved, every invocation of its tree has
\* finished, every branch has returned, and no step that emits a progress
\* event is possible any more; a `complete` event is emitted only by the
\* step that resolves the root call, so nothing follows it.
C13_ProgressBeforeResolve ==
    /\ RootSettled =>
          /\ \A k \in DOMAIN inv : inv[k].pc = "done"
          /\ \A b \in DOMAIN br : Returned(b)
          /\ ~ENABLED <<Next>>_<<events, completes>>
    /\ completes # <<>> => RootSettled

\* the root call has resolved with a `complete` event after a branch
\* recursed and the recursive call ran branches of its own
C13_Witness ==
    /\ RootSettled
    /\ Len(completes) = 1
    /\ \E b \in DOMAIN br : Recursed(b) /\ BranchesOf(b) # {}

----------------------------------------------------------------------------
\* C14: every invocation submits at most `breadth` branches to the limiter
\* and emits generated_query for at most `breadth` children, whatever the
\* number of queries in the model's stream.
C14_BreadthBound ==
    \A k \in DOMAIN inv :
        /\ Cardinality(BranchesOf(k)) <= inv[k].breadth
        /\ Cardinality({ b \in BranchesOf(k) : HasEvent(br[b].nodeId, "generated_query") })
              <= inv[k].breadth

----------------------------------------------------------------------------
\* the model and search calls in progress: generation streams being read,
\* searches awaited and processing streams being read
CallsInProgress ==
    Cardinality({ k \in DOMAIN inv : inv[k].pc = "generating" })
    + Cardinality({ b \in DOMAIN br : br[b].pc \in {"searching", "processing"} })

\* C15: in every reachable state the number of model and search calls in
\* progress, over all nodes of the tree, is at most the capacity the
\* limiter had when the run started.
C15_GlobalCallBound == CallsInProgress <= concurrency0

----------------------------------------------------------------------------
\* the query texts a model snapshot can hold, and the raw position of one
QueryTexts == { QueryText(j) : j \in 0 .. MaxQueries - 1 }
RawPosition(query) == CHOOSE j \in 0 .. MaxQueries - 1 : QueryText(j) = query

\* C16: in the child list of a generating node p (after every snapshot and
\* at the end) no entry has the query text 'undefined', the entry at
\* position i has node id p-i, the entries keep the order of the model's
\* output, each branch runs the entry of its position under that id, and
\* every generating_query event carries as parentNodeId its node id without
\* the last segment.
C16_ChildAddressing ==
    /\ \A k \in DOMAIN inv :
          ~inv[k].retried =>
              LET sq == inv[k].searchQueries
              IN  /\ \A i \in 1 .. Len(sq) :
                        /\ sq[i].nodeId = childNodeId(inv[k].nodeId, i - 1)
                        /\ sq[i].query # "undefined"
                  /\ \A i, j \in 1 .. Len(sq) :
                        (i < j /\ sq[i].query \in QueryTexts /\ sq[j].query \in QueryTexts)
                            => RawPosition(sq[i].query) < RawPosition(sq[j].query)
                  /\ \A b \in BranchesOf(k) :
                        /\ br[b].nodeId = childNodeId(inv[k].nodeId, Last(b))
                        /\ br[b].query = sq[Last(b) + 1].query
    /\ \A n \in DOMAIN events :
          \A i \in EventsOf(n, "generating_query") :
              /\ Log(n)[i].parentNodeId = Front(n)
              /\ Log(n)[i].query # "undefined"

\* the model returned 'undefined' for its first query: the second one was
\* retained as child 0 and its branch has started
C16_Witness ==
    \E b \in DOMAIN br :
        /\ ~inv[Front(b)].retried
        /\ Last(b) = 0
        /\ br[b].query = QueryText(1)
        /\ br[b].nodeId = childNodeId(inv[Front(b)].nodeId, 0)
        /\ HasEvent(br[b].nodeId, "generating_query")
        /\ br[b].pc # "queued"

----------------------------------------------------------------------------
\* C17: no two branches of a run have the same node id; the node id of a
\* branch starts with the root '0' and has one more index segment than the
\* currentDepth of the invocation that runs it; in a run of the root node
\* the node id of a branch is '0' followed by the branch's call path.
C17_NodeIdUniqueness ==
    /\ \A b1, b2 \in DOMAIN br : b1 # b2 => br[b1].nodeId # br[b2].nodeId
    /\ \A b \in DOMAIN br :
          /\ Head(br[b].nodeId) = Head(RootId)
          /\ Len(br[b].nodeId) - 1 = inv[Front(b)].currentDepth + 1
          /\ RootRun => br[b].nodeId = RootId \o b

\* two sibling branches and a branch of a recursive call have started
C17_Witness ==
    \E b1, b2, b3 \in DOMAIN br :
        /\ b1 # b2
        /\ Front(b1) = Front(b2)
        /\ Len(b3) = Len(b1) + 1
        /\ br[b1].pc # "queued"
        /\ br[b2].pc # "queued"
        /\ br[b3].pc # "queued"

----------------------------------------------------------------------------
\* C18: under fair scheduling the root call eventually settles and every
\* branch submitted to the limiter has then been admitted (a branch stays
\* submitted and an admission is never undone), also after branches that
\* hold a slot awaited their recursive call.
C18_NoStarvation ==
    <>(RootSettled /\ \A b \in DOMAIN br : br[b].pc # "queued")

\* the initial capacity is used up by a branch that awaits its recursive
\* call while a sibling and a branch of the recursive call are queued
C18_Witness ==
    \E b, s, c \in DOMAIN br :
        /\ br[b].pc = "recursing"
        /\ Front(s) = Front(b)
        /\ Front(c) = b
        /\ br[s].pc = "queued"
        /\ br[c].pc = "queued"
        /\ globalLimit.activeCount = concurrency0

----------------------------------------------------------------------------
\* the node_complete events without payload among the events of the node n
PlainCompletes(n) == { i \in EventsOf(n, "node_complete") : ~Log(n)[i].hasResult }

\* C19: an invocation whose generation stream yielded an error or bad-end
\* chunk has stopped reading the stream. While it leaves the loop the last
\* event of its node is the `error` of the failure, it has no branch yet
\* and it can go on. From then on, among the events of its node there
\* is exactly one node_complete without payload, the event before it is
\* the `error` of the failure and no second `error` precedes that one
\* directly; its branches are exactly the children captured by the last
\* object snapshot, each with one generated_query event that carries the
\* captured query and follows the child's generating_query events, and no
\* other child has a generated_query event; with no child captured it
\* resolves with empty learnings without its outer handler firing.
C19_GenerationStreamFailure ==
    \A k \in DOMAIN inv :
        inv[k].streamFailed =>
            LET n == inv[k].nodeId
                sq == inv[k].searchQueries
            IN  IF inv[k].pc = "leaving"
                THEN /\ Log(n) # <<>>
                     /\ Log(n)[Len(Log(n))].type = "error"
                     /\ PlainCompletes(n) = {}
                     /\ BranchesOf(k) = {}
                     /\ ENABLED GenLeft(k)
                ELSE
                /\ inv[k].pc \in {"joining", "done"}
                /\ Cardinality(PlainCompletes(n)) = 1
                /\ \A j \in PlainCompletes(n) :
                      /\ j > 1
                      /\ Log(n)[j - 1].type = "error"
                      /\ j > 2 => Log(n)[j - 2].type # "error"
                /\ BranchesOf(k) = { Append(k, i - 1) : i \in 1 .. Len(sq) }
                /\ \A i \in 1 .. Len(sq) :
                      LET c == sq[i].nodeId
                      IN  /\ br[Append(k, i - 1)].nodeId = c
                          /\ br[Append(k, i - 1)].query = sq[i].query
                          /\ Cardinality(EventsOf(c, "generated_query")) = 1
                          /\ \A g \in EventsOf(c, "generated_query") :
                                /\ Log(c)[g].query = sq[i].query
                                /\ g > 1
                                /\ Log(c)[g - 1].type = "generating_query"
                                /\ Log(c)[g - 1].query = sq[i].query
                                /\ \A x \in EventsOf(c, "generating_query") : x < g
                /\ \A i \in Len(sq) .. MaxQueries - 1 :
                      ~HasEvent(childNodeId(n, i), "generated_query")
                /\ (sq = <<>> /\ inv[k].pc = "done") =>
                      /\ inv[k].ret = Fulfilled(<<>>)
                      /\ ~inv[k].caught

\* a generation stream failed after an object snapshot, the captured child
\* searched and processed, and the invocation resolved
C19_Witness ==
    \E k \in DOMAIN inv :
        /\ inv[k].streamFailed
        /\ inv[k].searchQueries # <<>>
        /\ inv[k].pc = "done"
        /\ \E b \in BranchesOf(k) : br[b].fate = "processed"

----------------------------------------------------------------------------
\* the outer handler of the invocation k has fired: it has finished with
\* { learnings: [] } without any branch, and the last of the events of its
\* node is its one `error`, preceded by no `error` other than the one of a
\* failed processing stream of the branch that made the call
OuterHandled(k) ==
    LET n == inv[k].nodeId
    IN  /\ inv[k].pc = "done"
        /\ inv[k].ret = Fulfilled(<<>>)
        /\ BranchesOf(k) = {}
        /\ Log(n) # <<>>
        /\ Log(n)[Len(Log(n))].type = "error"
        /\ Cardinality(EventsOf(n, "error"))
              = 1 + (IF k \in DOMAIN br /\ br[k].fate = "streamFail" THEN 1 ELSE 0)

\* the branch b takes the step after its awaited recursive call
ResumesAfterRecursion(b) ==
    /\ b \in DOMAIN br
    /\ br[b].pc = "recursing"
    /\ br'[b].pc # "recursing"

\* C20: an invocation whose outer handler fired has emitted exactly one
\* `error` with its node id and resolved to { learnings: [] }; the branch
\* that awaited such a recursive call resumes by lowering the capacity by
\* one and returning the empty result as a success, without emitting any
\* event.
C20_TopLevelFailure ==
    /\ [](\A k \in DOMAIN inv : inv[k].caught => OuterHandled(k))
    /\ [][\A b \in DOMAIN br :
            (ResumesAfterRecursion(b) /\ inv[b].caught) =>
                /\ globalLimit'.concurrency = globalLimit.concurrency - 1
                /\ br'[b].pc = "returned"
                /\ br'[b].ret = Fulfilled(<<>>)
                /\ events' = events]_vars

\* query generation threw in a recursive call whose branch had inherited
\* and extracted learnings; the branch returned and the capacity is the
\* initial one again
C20_Witness ==
    \E b \in DOMAIN br :
        /\ Recursed(b)
        /\ inv[b].caught
        /\ inv[b].learnings # <<>>
        /\ Returned(b)
        /\ globalLimit.concurrency = concurrency0

----------------------------------------------------------------------------
\* the urls of a list of learnings
UrlsOf(ls) == { ls[i].url : i \in 1 .. Len(ls) }

\* C21: once a root call has settled with its `complete` event, for every
\* branch that emitted node_complete with a result and whose node id
\* carries no `error` event, every url of that result is among the urls of
\* the `complete` event and of the value the root call resolved to.
C21_AggregationKeepsLearnings ==
    (RootSettled /\ RootRun /\ Len(completes) = 1) =>
        \A b \in DOMAIN br :
            LET n == br[b].nodeId
            IN  ~HasEvent(n, "error") =>
                    \A i \in EventsOf(n, "node_complete") :
                        Log(n)[i].hasResult =>
                            /\ UrlsOf(Log(n)[i].learnings) \subseteq UrlsOf(completes[1].learnings)
                            /\ UrlsOf(Log(n)[i].learnings) \subseteq UrlsOf(inv[<<>>].ret.learnings)

----------------------------------------------------------------------------
\* the branches between `concurrency++` and the matching `concurrency--`
AwaitingRecursion == { b \in DOMAIN br : br[b].pc = "recursing" }

\* the branches the limiter has admitted and not yet released
AdmittedBranches ==
    { b \in DOMAIN br :
        br[b].pc \in {"searching", "processing", "leaving", "recursing", "returned"} }

\* C22: in every reachable state the limiter's capacity is its initial value
\* plus the number of branches awaiting their recursive call; it is never
\* below the initial value and never above the initial value plus the
\* number of admitted branches.
C22_CapacityAccounting ==
    /\ globalLimit.concurrency = concurrency0 + Cardinality(AwaitingRecursion)
    /\ globalLimit.concurrency >= concurrency0
    /\ globalLimit.concurrency <= concurrency0 + Cardinality(AdmittedBranches)
    /\ globalLimit.concurrency <= concurrency0 + globalLimit.activeCount

\* two branches await their recursive calls at the same time while a third
\* branch is admitted
C22_Witness ==
    /\ Cardinality(AwaitingRecursion) = 2
    /\ Cardinality(AdmittedBranches) = 3
    /\ globalLimit.concurrency = concurrency0 + 2

----------------------------------------------------------------------------
\* C23: the urls of the value an invocation has returned are either none or
\* include the urls of the learnings it was called with; they are none
\* exactly when its outer handler fired, it had no branch, or every one of
\* its branches returned empty learnings.
C23_AllOrNothingInheritance ==
    \A k \in DOMAIN inv :
        inv[k].pc = "done" =>
            LET returned == UrlsOf(inv[k].ret.learnings)
                inherited == UrlsOf(inv[k].learnings)
            IN  /\ returned = {} \/ inherited \subseteq returned
                /\ returned = {} <=>
                      \/ inv[k].caught
                      \/ BranchesOf(k) = {}
                      \/ \A b \in BranchesOf(k) : br[b].ret.learnings = <<>>

\* a recursive call inherited a url, one of its branches extracted another
\* url and returned both, a sibling failed, and the call returned both urls
C23_Witness ==
    \E k \in DOMAIN inv : \E b, f \in BranchesOf(k) :
        /\ inv[k].pc = "done"
        /\ inv[k].learnings # <<>>
        /\ br[b].searchResult.learnings # <<>>
        /\ UrlsOf(br[b].searchResult.learnings) \cap UrlsOf(inv[k].learnings) = {}
        /\ br[f].fate = "searchFail"
        /\ UrlsOf(inv[k].ret.learnings)
              = UrlsOf(inv[k].learnings) \cup UrlsOf(br[b].searchResult.learnings)

====
